---- MODULE Spec2Model ----
(***************************************************************************)
(* A model of document_vision.py: the thread budget, the XML sanitizer,    *)
(* the natural sort, and the page pipeline (detect / detectFiles and the   *)
(* two assemblers detectImagesToTxt / detectImagesToDocx).                  *)
(*                                                                         *)
(* Strings are sequences of characters; a character is a one-character     *)
(* TLA+ string, except "U+0663", which stands for the single character     *)
(* ARABIC-INDIC DIGIT THREE.  OCR texts are sequences of code points.      *)
(***************************************************************************)
EXTENDS Integers, Sequences, FiniteSets, TLC

VARIABLES
    \* ---- the page pipeline (main, detect, detectFiles, the assemblers)
    pc,              \* position of the run
    exc,             \* the exception that ended the run, or "none"
    option,          \* argv[1]: a flag string, or the target path itself
    targetFilePath,  \* the target path: the PDF file, or the image folder
    outputmode,      \* OutputMode chosen by main: "docx", "txt" or "None"
    folder,          \* os.listdir(folderPath): the entries, in listing order
    saveDir0,        \* the scratch directory before the run
    saveDir,         \* the scratch directory now: "absent", "dir", "file" (a
                     \* regular file of that name), "notCreatable" (absent,
                     \* and mkdir fails)
    saveDirFiles,    \* basenames written into the scratch directory, in order
    convertCalls,    \* number of calls of convert_from_path
    pdfpages,        \* number of page images convert_from_path returned
    pageNumber,      \* pageNumber of the running assembler
    imageFilePaths,  \* the ordered image list handed to the assembler
    ocrCalls,        \* the paths given to performDetectionOnImage, in order
    ocrTexts,        \* the texts those calls returned, in order
    txtFile0,        \* <output_file_name>.txt before the run
    txtFile,         \* <output_file_name>.txt now: whether it exists, its content
    docxFile0,       \* <output_file_name>.docx before the run
    docxFile,        \* <output_file_name>.docx now: whether it exists, its body
    output_docx,     \* the in-memory document of detectImagesToDocx
    \* ---- sort_nicely applied to a list of paths
    l,               \* the list being sorted (in place)
    l0,              \* the list as first given
    sortRaised,      \* whether l.sort raised TypeError
    sortCalls,       \* how many times sort_nicely has been applied
    \* ---- __numberOfThreads__
    cpu_count,       \* multiprocessing.cpu_count()
    pctNum,          \* percentageOfCpus = pctNum / pctDen
    pctDen,
    budgetPc,        \* "start" before __numberOfThreads__ has run, then "done"
    thread_count     \* the computed budget

pipeVars == <<pc, exc, option, targetFilePath, outputmode, folder, saveDir0, saveDir,
              saveDirFiles, convertCalls, pdfpages, pageNumber, imageFilePaths, ocrCalls, ocrTexts,
              txtFile0, txtFile, docxFile0, docxFile, output_docx>>
sortVars == <<l, l0, sortRaised, sortCalls>>
budgetVars == <<cpu_count, pctNum, pctDen, budgetPc, thread_count>>
vars == <<pipeVars, sortVars, budgetVars>>

(***************************************************************************)
(* Bounds of the model.                                                    *)
(***************************************************************************)
MaxPages == 2
MaxTextLen == 2
MaxFiles == 4
MaxList == 3
MaxCpu == 8
MaxDen == 10

(***************************************************************************)
(* Characters.                                                             *)
(***************************************************************************)
DigitChars == <<"0", "1", "2", "3", "4", "5", "6", "7", "8", "9">>

\* What the pattern [0-9] of re.split matches: the ASCII digits only.
IsAsciiDigit(c) == \E i \in 1..Len(DigitChars) : DigitChars[i] = c

\* What int() accepts as a digit: every Unicode decimal digit, ASCII or not.
IsDecimalDigit(c) == IsAsciiDigit(c) \/ c = "U+0663"

DigitValue(c) ==
    IF c = "U+0663" THEN 3
    ELSE (CHOOSE i \in 1..Len(DigitChars) : DigitChars[i] = c) - 1

\* ord(c), which orders characters in Python's string comparison.
Ord(c) ==
    CASE c = "." -> 46
      [] c = "/" -> 47
      [] IsAsciiDigit(c) -> 48 + DigitValue(c)
      [] c = "a" -> 97
      [] c = "b" -> 98
      [] c = "d" -> 100
      [] c = "f" -> 102
      [] c = "g" -> 103
      [] c = "j" -> 106
      [] c = "p" -> 112
      [] c = "s" -> 115
      [] c = "t" -> 116
      [] c = "u" -> 117
      [] c = "x" -> 120
      [] c = "U+0663" -> 1635

(***************************************************************************)
(* The natural sort: tryint, alphanum_key, sort_nicely.                    *)
(***************************************************************************)
\* os.path.basename: what follows the last "/".
RECURSIVE basename(_)
basename(x) ==
    IF \A i \in 1..Len(x) : x[i] # "/" THEN x
    ELSE basename(Tail(x))

\* re.split('([0-9]+)', s): the text chunks and the digit runs, alternating,
\* first and last a text chunk (empty when s starts or ends with a digit).
\* acc holds the finished chunks, cur the current one; the current chunk is
\* a digit run exactly when Len(acc) is odd.
RECURSIVE SplitRec(_, _, _)
SplitRec(s, cur, acc) ==
    LET inDigits == Len(acc) % 2 = 1 IN
    IF s = <<>>
    THEN IF inDigits THEN Append(Append(acc, cur), <<>>) ELSE Append(acc, cur)
    ELSE IF IsAsciiDigit(Head(s)) = inDigits
         THEN SplitRec(Tail(s), Append(cur, Head(s)), acc)
         ELSE SplitRec(Tail(s), <<Head(s)>>, Append(acc, cur))

re_split(s) == SplitRec(s, <<>>, <<>>)

\* int(c) of a chunk of decimal digits.
RECURSIVE IntValue(_)
IntValue(c) ==
    IF c = <<>> THEN 0
    ELSE 10 * IntValue(SubSeq(c, 1, Len(c) - 1)) + DigitValue(c[Len(c)])

IntToken(n) == [kind |-> "int", num |-> n, str |-> <<>>]
StrToken(c) == [kind |-> "str", num |-> 0, str |-> c]

\* tryint without the conversion: every chunk stays a string.
tryint_str(c) == StrToken(c)

\* tryint: int(s) when int() accepts s, otherwise s itself.  Of the chunks
\* re.split yields over this alphabet, int() accepts the non-empty chunks
\* made of decimal digits only.
tryint(c) ==
    IF c # <<>> /\ \A i \in 1..Len(c) : IsDecimalDigit(c[i])
    THEN IntToken(IntValue(c))
    ELSE StrToken(c)

alphanum_key(x) ==
    LET chunks == re_split(basename(x))
    IN  [i \in 1..Len(chunks) |-> tryint(chunks[i])]

\* s < t for two Python strings: lexicographic by code point.
RECURSIVE StrLt(_, _)
StrLt(s, t) ==
    IF t = <<>> THEN FALSE
    ELSE IF s = <<>> THEN TRUE
    ELSE IF Head(s) # Head(t) THEN Ord(Head(s)) < Ord(Head(t))
    ELSE StrLt(Tail(s), Tail(t))

\* a < b for two elements of a key: "True", "False", or "TypeError" when one
\* is an int and the other a str.
TokenLt(a, b) ==
    IF a.kind # b.kind THEN "TypeError"
    ELSE IF a.kind = "int" THEN (IF a.num < b.num THEN "True" ELSE "False")
    ELSE (IF StrLt(a.str, b.str) THEN "True" ELSE "False")

\* a < b for two keys (Python lists): the first position where the elements
\* differ decides, by the elements' own <; without one the shorter is less.
RECURSIVE KeyLt(_, _)
KeyLt(a, b) ==
    IF a = <<>> \/ b = <<>> THEN (IF Len(a) < Len(b) THEN "True" ELSE "False")
    ELSE IF Head(a) # Head(b) THEN TokenLt(Head(a), Head(b))
    ELSE KeyLt(Tail(a), Tail(b))

\* The result of a sort: the list, or the exception raised by a comparison.
Sorted(s) == [raised |-> FALSE, list |-> s]
Raised == [raised |-> TRUE, list |-> <<>>]

\* The insertion that goes past the elements equal to x as well.
RECURSIVE insert_before_equal(_, _, _)
insert_before_equal(acc, x, j) ==
    IF j = 0 THEN Sorted(<<x>> \o acc)
    ELSE LET gt == KeyLt(alphanum_key(acc[j]), alphanum_key(x)) IN
         IF gt = "TypeError" THEN Raised
         ELSE IF gt = "False" THEN insert_before_equal(acc, x, j - 1)
         ELSE Sorted(SubSeq(acc, 1, j) \o <<x>> \o SubSeq(acc, j + 1, Len(acc)))

\* Insert x into the sorted prefix acc, after every element not greater
\* than x (which keeps elements of equal keys in their input order).
RECURSIVE InsertFrom(_, _, _)
InsertFrom(acc, x, j) ==
    IF j = 0 THEN Sorted(<<x>> \o acc)
    ELSE LET lt == KeyLt(alphanum_key(x), alphanum_key(acc[j])) IN
         IF lt = "TypeError" THEN Raised
         ELSE IF lt = "True" THEN InsertFrom(acc, x, j - 1)
         ELSE Sorted(SubSeq(acc, 1, j) \o <<x>> \o SubSeq(acc, j + 1, Len(acc)))

\* list.sort(key=alphanum_key): a stable comparison sort of the keys; an
\* exception raised by a comparison ends it.
RECURSIVE ListSort(_)
ListSort(s) ==
    IF s = <<>> THEN Sorted(<<>>)
    ELSE LET init == ListSort(SubSeq(s, 1, Len(s) - 1)) IN
         IF init.raised THEN Raised
         ELSE InsertFrom(init.list, s[Len(s)], Len(init.list))

sort_nicely(s) == ListSort(s)

(***************************************************************************)
(* The thread budget: clamp, __numberOfThreads__.                          *)
(***************************************************************************)
Min(a, b) == IF a < b THEN a ELSE b
Max(a, b) == IF a > b THEN a ELSE b

clamp(num, min_value, max_value) == Max(Min(num, max_value), min_value)

\* int(n / d): the quotient cut off instead of rounded.
round_down(n, d) == n \div d

\* round(n / d) for n >= 0, d > 0: Python's round goes to the nearest
\* integer and, half-way between two, to the even one.  (The code rounds
\* the binary floating-point product; for the cpu counts and fractions of
\* this model that product rounds as the exact quotient does.)
round(n, d) ==
    LET q == n \div d
        r == n % d
    IN  IF 2 * r < d THEN q
        ELSE IF 2 * r > d THEN q + 1
        ELSE IF q % 2 = 0 THEN q ELSE q + 1

\* __numberOfThreads__(percentageOfCpus) with percentageOfCpus = num / den.
numberOfThreads(cpus, num, den) ==
    LET numberOfCpuToUse == round(cpus * num, den)
    IN  clamp(numberOfCpuToUse, 0, cpus)

(***************************************************************************)
(* The sanitizer: valid_xml_char_ordinal, makeXMLCompatible.               *)
(***************************************************************************)
\* The test without the clause for tab, line feed and carriage return.
valid_without_whitespace(codepoint) ==
    \/ (32 <= codepoint /\ codepoint <= 55295)
    \/ (57344 <= codepoint /\ codepoint <= 65533)
    \/ (65536 <= codepoint /\ codepoint <= 1114111)

\* 0x20 <= c <= 0xD7FF or c in (0x9, 0xA, 0xD) or 0xE000 <= c <= 0xFFFD
\* or 0x10000 <= c <= 0x10FFFF
valid_xml_char_ordinal(codepoint) ==
    \/ (32 <= codepoint /\ codepoint <= 55295)
    \/ codepoint \in {9, 10, 13}
    \/ (57344 <= codepoint /\ codepoint <= 65533)
    \/ (65536 <= codepoint /\ codepoint <= 1114111)

makeXMLCompatible(input_string) == SelectSeq(input_string, valid_xml_char_ordinal)

(***************************************************************************)
(* Idle values of the three groups of variables.                           *)
(***************************************************************************)
AbsentFile == [exists |-> FALSE, content |-> <<>>]
FileOf(c) == [exists |-> TRUE, content |-> c]

PipeIdle ==
    /\ pc = "idle" /\ exc = "none" /\ option = <<>>
    /\ targetFilePath = <<>> /\ outputmode = "None" /\ folder = <<>>
    /\ saveDir0 = "absent" /\ saveDir = "absent" /\ saveDirFiles = <<>>
    /\ convertCalls = 0 /\ pdfpages = 0 /\ pageNumber = 0 /\ imageFilePaths = <<>>
    /\ ocrCalls = <<>> /\ ocrTexts = <<>>
    /\ txtFile0 = AbsentFile /\ txtFile = AbsentFile
    /\ docxFile0 = AbsentFile /\ docxFile = AbsentFile
    /\ output_docx = <<>>

SortIdle == l = <<>> /\ l0 = <<>> /\ sortRaised = FALSE /\ sortCalls = 0

BudgetIdle ==
    /\ cpu_count = 1 /\ pctNum = 0 /\ pctDen = 1
    /\ budgetPc = "idle" /\ thread_count = 0

\* All sequences over S of length at most n.
SeqsUpTo(S, n) == UNION {[1..k -> S] : k \in 0..n}

(***************************************************************************)
(* __numberOfThreads__ as a function of the cpu count and the fraction.    *)
(***************************************************************************)
InitBudget ==
    /\ PipeIdle /\ SortIdle
    /\ cpu_count \in 1..MaxCpu
    /\ pctDen \in 1..MaxDen
    /\ pctNum \in 0..pctDen
    /\ budgetPc = "start"
    /\ thread_count = 0

NumberOfThreads ==
    /\ budgetPc = "start"
    /\ thread_count' = numberOfThreads(cpu_count, pctNum, pctDen)
    /\ budgetPc' = "done"
    /\ UNCHANGED <<pipeVars, sortVars, cpu_count, pctNum, pctDen>>

NextBudget == NumberOfThreads

SpecBudget == InitBudget /\ [][NextBudget]_vars

(***************************************************************************)
(* sort_nicely as a function of the list of paths.                         *)
(***************************************************************************)
\* Basenames: plain numbers, a number with a leading zero, a number after a
\* text prefix, and one that starts with a non-ASCII decimal digit.
SortNames ==
    { <<"1">>, <<"0", "1">>, <<"2">>, <<"1", "0">>,
      <<"p", "2">>, <<"U+0663", "1">> }

SortDirs == { <<"a">>, <<"b">> }

\* os.path.join(a, b) for a relative b
join(a, b) == a \o <<"/">> \o b

SortPaths == { join(d, n) : d \in SortDirs, n \in SortNames }

InitSort ==
    /\ PipeIdle /\ BudgetIdle
    /\ l \in SeqsUpTo(SortPaths, MaxList)
    /\ l0 = l
    /\ sortRaised = FALSE
    /\ sortCalls = 0

\* sort_nicely(l): sorts l in place, or raises.
SortNicely ==
    /\ sortCalls < 2
    /\ ~sortRaised
    /\ LET r == sort_nicely(l) IN
         /\ sortRaised' = r.raised
         /\ l' = IF r.raised THEN l ELSE r.list
    /\ sortCalls' = sortCalls + 1
    /\ UNCHANGED <<pipeVars, budgetVars, l0>>

NextSort == SortNicely

SpecSort == InitSort /\ [][NextSort]_vars

(***************************************************************************)
(* The page pipeline: main, detect, detectFiles and the two assemblers.    *)
(***************************************************************************)
\* s.endswith(suffix)
endswith(s, suffix) ==
    /\ Len(s) >= Len(suffix)
    /\ SubSeq(s, Len(s) - Len(suffix) + 1, Len(s)) = suffix

\* c in s
Contains(s, c) == \E i \in 1..Len(s) : s[i] = c

\* str(n) for n >= 0
RECURSIVE IntToStr(_)
IntToStr(n) ==
    IF n < 10 THEN <<DigitChars[n + 1]>>
    ELSE IntToStr(n \div 10) \o <<DigitChars[(n % 10) + 1]>>

\* f'{filename}.d'
SaveDirOf(filename) == filename \o <<".", "d">>

\* f'{saveDir}/{pageNumber}.jpg'
pageSavePath(filename, n) ==
    SaveDirOf(filename) \o <<"/">> \o IntToStr(n) \o <<".", "j", "p", "g">>

\* The code points OCR texts are made of: BEL (not valid in XML), LF, "A".
CodePoints == {7, 10, 65}

\* What performDetectionOnImage may return for a page.
Texts == SeqsUpTo(CodePoints, MaxTextLen)

\* f.write(f'\n\n\n')
Delimiter == <<10, 10, 10>>

Paragraph(t) == [type |-> "paragraph", text |-> t]
PageBreak == [type |-> "page_break", text |-> <<>>]

Raise(e) == pc' = "raised" /\ exc' = e

\* main: the flag scan of argv[1], then detect or detectFiles.
Main ==
    /\ pc = "main"
    /\ LET hasOptions == option # <<>> /\ Head(option) = "-"
           doPdfToJpg == ~(hasOptions /\ Contains(option, "s"))
       IN  /\ outputmode' = IF hasOptions
                            THEN (IF Contains(option, "d") THEN "docx" ELSE "None")
                            ELSE "txt"
           /\ pc' = IF doPdfToJpg THEN "detect" ELSE "detectFiles"
    /\ UNCHANGED <<exc, option, targetFilePath, folder, saveDir0, saveDir, saveDirFiles,
                   convertCalls, pdfpages, pageNumber, imageFilePaths, ocrCalls,
                   ocrTexts, txtFile0, txtFile, docxFile0, docxFile, output_docx,
                   sortVars, budgetVars>>

\* detect without the assertion.
DetectNoAssert ==
    /\ pc = "detect"
    /\ pc' = "convert"
    /\ UNCHANGED <<exc, option, targetFilePath, outputmode, folder, saveDir0, saveDir,
                   saveDirFiles, convertCalls, pdfpages, pageNumber, imageFilePaths,
                   ocrCalls, ocrTexts, txtFile0, txtFile, docxFile0, docxFile,
                   output_docx, sortVars, budgetVars>>

\* detect, line 115: assert(filename.endswith(".pdf"))
DetectAssert ==
    /\ pc = "detect"
    /\ IF endswith(targetFilePath, <<".", "p", "d", "f">>)
       THEN pc' = "convert" /\ exc' = exc
       ELSE Raise("AssertionError")
    /\ UNCHANGED <<option, targetFilePath, outputmode, folder, saveDir0, saveDir,
                   saveDirFiles, convertCalls, pdfpages, pageNumber, imageFilePaths,
                   ocrCalls, ocrTexts, txtFile0, txtFile, docxFile0, docxFile,
                   output_docx, sortVars, budgetVars>>

\* detect, lines 121-125: convert_from_path returns the page images.
DetectConvert ==
    /\ pc = "convert"
    /\ convertCalls' = convertCalls + 1
    /\ \E n \in 0..MaxPages : pdfpages' = n
    /\ pc' = "mkdir"
    /\ UNCHANGED <<exc, option, targetFilePath, outputmode, folder, saveDir0, saveDir,
                   saveDirFiles, pageNumber, imageFilePaths, ocrCalls, ocrTexts,
                   txtFile0, txtFile, docxFile0, docxFile, output_docx,
                   sortVars, budgetVars>>

\* detect, lines 121-125: convert_from_path raises.
DetectConvertFail ==
    /\ pc = "convert"
    /\ convertCalls' = convertCalls + 1
    /\ Raise("PDFError")
    /\ UNCHANGED <<option, targetFilePath, outputmode, folder, saveDir0, saveDir,
                   saveDirFiles, pdfpages, pageNumber, imageFilePaths, ocrCalls,
                   ocrTexts, txtFile0, txtFile, docxFile0, docxFile, output_docx,
                   sortVars, budgetVars>>

\* The directory step with the error of os.mkdir swallowed as well.
DetectMkdirSwallowed ==
    /\ pc = "mkdir"
    /\ saveDir' = IF saveDir = "absent" THEN "dir" ELSE saveDir
    /\ pc' = "save"
    /\ UNCHANGED <<exc, option, targetFilePath, outputmode, folder, saveDir0,
                   saveDirFiles, convertCalls, pdfpages, pageNumber, imageFilePaths,
                   ocrCalls, ocrTexts, txtFile0, txtFile, docxFile0, docxFile,
                   output_docx, sortVars, budgetVars>>

\* detect, lines 133-136: try: os.stat(saveDir) / except: os.mkdir(saveDir).
\* os.stat raises when nothing of that name exists; the except clause then
\* calls os.mkdir, whose own exception nothing catches.
DetectMkdir ==
    /\ pc = "mkdir"
    /\ IF saveDir \in {"dir", "file"}
       THEN saveDir' = saveDir /\ pc' = "save" /\ exc' = exc
       ELSE IF saveDir = "absent"
            THEN saveDir' = "dir" /\ pc' = "save" /\ exc' = exc
            ELSE saveDir' = saveDir /\ Raise("OSError")
    /\ UNCHANGED <<option, targetFilePath, outputmode, folder, saveDir0, saveDirFiles,
                   convertCalls, pdfpages, pageNumber, imageFilePaths, ocrCalls,
                   ocrTexts, txtFile0, txtFile, docxFile0, docxFile, output_docx,
                   sortVars, budgetVars>>

\* detect, lines 138-150: every page is saved as <saveDir>/<n>.jpg, then the
\* list of the saved paths goes to the assembler of the output mode.
DetectSave ==
    /\ pc = "save"
    /\ IF saveDir = "file" /\ pdfpages > 0
       THEN /\ Raise("NotADirectoryError")
            /\ UNCHANGED <<saveDirFiles, imageFilePaths>>
       ELSE /\ saveDirFiles' = [n \in 1..pdfpages |->
                                   IntToStr(n - 1) \o <<".", "j", "p", "g">>]
            /\ imageFilePaths' = [n \in 1..pdfpages |->
                                     pageSavePath(targetFilePath, n - 1)]
            /\ pc' = IF outputmode = "docx" THEN "docx" ELSE "txt"
            /\ exc' = exc
    /\ UNCHANGED <<option, targetFilePath, outputmode, folder, saveDir0, saveDir,
                   convertCalls, pdfpages, pageNumber, ocrCalls, ocrTexts,
                   txtFile0, txtFile, docxFile0, docxFile, output_docx,
                   sortVars, budgetVars>>

\* The start of detectImagesToTxt with the file opened for appending.
TxtStartAppending ==
    /\ pc = "txt"
    /\ IF imageFilePaths = <<>>
       THEN Raise("IndexError") /\ txtFile' = txtFile
       ELSE pc' = "txt_loop" /\ exc' = exc /\ txtFile' = FileOf(txtFile.content)
    /\ pageNumber' = 0
    /\ UNCHANGED <<option, targetFilePath, outputmode, folder, saveDir0, saveDir,
                   saveDirFiles, convertCalls, pdfpages, imageFilePaths, ocrCalls,
                   ocrTexts, txtFile0, docxFile0, docxFile, output_docx,
                   sortVars, budgetVars>>

\* detectImagesToTxt, lines 66-72: imageFilePaths[0] is read first (IndexError
\* on an empty list), then open(detectionResult, 'w+') creates or truncates.
TxtStart ==
    /\ pc = "txt"
    /\ IF imageFilePaths = <<>>
       THEN Raise("IndexError") /\ txtFile' = txtFile
       ELSE pc' = "txt_loop" /\ exc' = exc /\ txtFile' = FileOf(<<>>)
    /\ pageNumber' = 0
    /\ UNCHANGED <<option, targetFilePath, outputmode, folder, saveDir0, saveDir,
                   saveDirFiles, convertCalls, pdfpages, imageFilePaths, ocrCalls,
                   ocrTexts, txtFile0, docxFile0, docxFile, output_docx,
                   sortVars, budgetVars>>

\* detectImagesToTxt, lines 73-87: one turn of the loop, the OCR call returning
\* text: f.write(text), f.write('\n\n\n').
TxtPage(T) ==
    /\ pc = "txt_loop"
    /\ pageNumber < Len(imageFilePaths)
    /\ \E text \in T :
         /\ ocrTexts' = Append(ocrTexts, text)
         /\ txtFile' = FileOf(txtFile.content \o text \o Delimiter)
    /\ ocrCalls' = Append(ocrCalls, imageFilePaths[pageNumber + 1])
    /\ pageNumber' = pageNumber + 1
    /\ UNCHANGED <<pc, exc, option, targetFilePath, outputmode, folder, saveDir0,
                   saveDir, saveDirFiles, convertCalls, pdfpages, imageFilePaths,
                   txtFile0, docxFile0, docxFile, output_docx, sortVars, budgetVars>>

\* detectImagesToTxt, lines 73-79: the OCR call raises; the with statement
\* closes the file and the exception leaves the function.
TxtPageFail ==
    /\ pc = "txt_loop"
    /\ pageNumber < Len(imageFilePaths)
    /\ ocrCalls' = Append(ocrCalls, imageFilePaths[pageNumber + 1])
    /\ Raise("OCRError")
    /\ UNCHANGED <<option, targetFilePath, outputmode, folder, saveDir0, saveDir,
                   saveDirFiles, convertCalls, pdfpages, pageNumber, imageFilePaths,
                   ocrTexts, txtFile0, txtFile, docxFile0, docxFile, output_docx,
                   sortVars, budgetVars>>

\* detectImagesToTxt: the loop is over, the with statement closes the file.
TxtDone ==
    /\ pc = "txt_loop"
    /\ pageNumber = Len(imageFilePaths)
    /\ pc' = "done"
    /\ UNCHANGED <<exc, option, targetFilePath, outputmode, folder, saveDir0, saveDir,
                   saveDirFiles, convertCalls, pdfpages, pageNumber, imageFilePaths,
                   ocrCalls, ocrTexts, txtFile0, txtFile, docxFile0, docxFile,
                   output_docx, sortVars, budgetVars>>

\* detectImagesToDocx, lines 90-93: output_docx = docx.Document()
DocxStart ==
    /\ pc = "docx"
    /\ output_docx' = <<>>
    /\ pageNumber' = 0
    /\ pc' = "docx_loop"
    /\ UNCHANGED <<exc, option, targetFilePath, outputmode, folder, saveDir0, saveDir,
                   saveDirFiles, convertCalls, pdfpages, imageFilePaths, ocrCalls,
                   ocrTexts, txtFile0, txtFile, docxFile0, docxFile,
                   sortVars, budgetVars>>

\* detectImagesToDocx, lines 97-110: one turn of the loop, the OCR call
\* returning text: add_paragraph(makeXMLCompatible(text)), add_page_break().
DocxPage(T) ==
    /\ pc = "docx_loop"
    /\ pageNumber < Len(imageFilePaths)
    /\ \E text \in T :
         /\ ocrTexts' = Append(ocrTexts, text)
         /\ output_docx' = output_docx \o <<Paragraph(makeXMLCompatible(text)), PageBreak>>
    /\ ocrCalls' = Append(ocrCalls, imageFilePaths[pageNumber + 1])
    /\ pageNumber' = pageNumber + 1
    /\ UNCHANGED <<pc, exc, option, targetFilePath, outputmode, folder, saveDir0,
                   saveDir, saveDirFiles, convertCalls, pdfpages, imageFilePaths,
                   txtFile0, txtFile, docxFile0, docxFile, sortVars, budgetVars>>

\* The failing turn of the loop with the document saved on the way out.
DocxPageFailSaving ==
    /\ pc = "docx_loop"
    /\ pageNumber < Len(imageFilePaths)
    /\ ocrCalls' = Append(ocrCalls, imageFilePaths[pageNumber + 1])
    /\ docxFile' = FileOf(output_docx)
    /\ Raise("OCRError")
    /\ UNCHANGED <<option, targetFilePath, outputmode, folder, saveDir0, saveDir,
                   saveDirFiles, convertCalls, pdfpages, pageNumber, imageFilePaths,
                   ocrTexts, txtFile0, txtFile, docxFile0, output_docx,
                   sortVars, budgetVars>>

\* detectImagesToDocx, lines 97-103: the OCR call raises and the exception
\* leaves the function; output_docx.save is not reached.
DocxPageFail ==
    /\ pc = "docx_loop"
    /\ pageNumber < Len(imageFilePaths)
    /\ ocrCalls' = Append(ocrCalls, imageFilePaths[pageNumber + 1])
    /\ Raise("OCRError")
    /\ UNCHANGED <<option, targetFilePath, outputmode, folder, saveDir0, saveDir,
                   saveDirFiles, convertCalls, pdfpages, pageNumber, imageFilePaths,
                   ocrTexts, txtFile0, txtFile, docxFile0, docxFile, output_docx,
                   sortVars, budgetVars>>

\* detectImagesToDocx, line 112: output_docx.save(detectionResult)
DocxSave ==
    /\ pc = "docx_loop"
    /\ pageNumber = Len(imageFilePaths)
    /\ docxFile' = FileOf(output_docx)
    /\ pc' = "done"
    /\ UNCHANGED <<exc, option, targetFilePath, outputmode, folder, saveDir0, saveDir,
                   saveDirFiles, convertCalls, pdfpages, pageNumber, imageFilePaths,
                   ocrCalls, ocrTexts, txtFile0, txtFile, docxFile0, output_docx,
                   sortVars, budgetVars>>

\* The regular files of a listing, joined to the folder path, in listing order.
RECURSIVE RegularFiles(_, _)
RegularFiles(folderPath, entries) ==
    IF entries = <<>> THEN <<>>
    ELSE (IF Head(entries).isfile THEN <<join(folderPath, Head(entries).name)>> ELSE <<>>)
         \o RegularFiles(folderPath, Tail(entries))

\* detectFiles, lines 175-181: list the regular files, sort them, hand them to
\* the assembler of the output mode.
DetectFiles ==
    /\ pc = "detectFiles"
    /\ LET r == sort_nicely(RegularFiles(targetFilePath, folder)) IN
         IF r.raised
         THEN Raise("TypeError") /\ imageFilePaths' = imageFilePaths
         ELSE /\ imageFilePaths' = r.list
              /\ pc' = IF outputmode = "docx" THEN "docx" ELSE "txt"
              /\ exc' = exc
    /\ UNCHANGED <<option, targetFilePath, outputmode, folder, saveDir0, saveDir,
                   saveDirFiles, convertCalls, pdfpages, pageNumber, ocrCalls, ocrTexts,
                   txtFile0, txtFile, docxFile0, docxFile, output_docx,
                   sortVars, budgetVars>>

\* The output files before the run: both absent, or both left by an earlier run.
OldTxt == FileOf(<<65, 10, 10, 10>>)
OldDocx == FileOf(<<Paragraph(<<65>>), PageBreak>>)

InitOutputs ==
    /\ exc = "none" /\ saveDirFiles = <<>> /\ convertCalls = 0 /\ pdfpages = 0
    /\ pageNumber = 0 /\ imageFilePaths = <<>> /\ ocrCalls = <<>> /\ ocrTexts = <<>>
    /\ output_docx = <<>> /\ outputmode = "None"
    /\ \E old \in BOOLEAN :
         /\ txtFile0 = (IF old THEN OldTxt ELSE AbsentFile)
         /\ docxFile0 = (IF old THEN OldDocx ELSE AbsentFile)
    /\ txtFile = txtFile0
    /\ docxFile = docxFile0

\* The paths detect is called with.
Filenames ==
    { <<"a", ".", "p", "d", "f">>, <<"a", ".", "t", "x", "t">>,
      <<"p", "d", "f">>, <<"a", ".", "p", "d", "f", "x">> }

\* run <pdfPath> <out>, run -d <pdfPath> <out>, run -x <pdfPath> <out>
Init ==
    /\ SortIdle /\ BudgetIdle
    /\ pc = "main"
    /\ targetFilePath \in Filenames
    /\ option \in {targetFilePath, <<"-", "d">>, <<"-", "x">>}
    /\ folder = <<>>
    /\ saveDir0 \in {"absent", "dir", "file", "notCreatable"}
    /\ saveDir = saveDir0
    /\ InitOutputs

Next ==
    \/ Main
    \/ DetectAssert
    \/ DetectConvert
    \/ DetectConvertFail
    \/ DetectMkdir
    \/ DetectSave
    \/ TxtStart
    \/ TxtPage(Texts)
    \/ TxtPageFail
    \/ TxtDone
    \/ DocxStart
    \/ DocxPage(Texts)
    \/ DocxPageFail
    \/ DocxSave

Spec == Init /\ [][Next]_vars

(***************************************************************************)
(* Resume-from-folder: run -s <folder> <out>, run -ds <folder> <out>.      *)
(***************************************************************************)
Jpg(n) == n \o <<".", "j", "p", "g">>

\* The entries a folder may hold: page images, one of them named with a
\* non-ASCII decimal digit, and a subdirectory.
FolderEntries ==
    { [name |-> Jpg(n), isfile |-> TRUE] :
        n \in { <<"0">>, <<"1">>, <<"1", "0">>, <<"2">>, <<"U+0663", "1">> } }
    \cup { [name |-> <<"3">>, isfile |-> FALSE] }

\* os.listdir: the entries of the folder, each once, in arbitrary order.
Listings ==
    { s \in SeqsUpTo(FolderEntries, MaxFiles) :
        \A i, j \in 1..Len(s) : i # j => s[i] # s[j] }

FolderTexts == { <<65>>, <<7, 65>> }

InitFolder ==
    /\ SortIdle /\ BudgetIdle
    /\ pc = "main"
    /\ targetFilePath = <<"f">>
    /\ option \in { <<"-", "s">>, <<"-", "d", "s">> }
    /\ folder \in Listings
    /\ saveDir0 = "absent"
    /\ saveDir = saveDir0
    /\ InitOutputs

NextFolder ==
    \/ Main
    \/ DetectFiles
    \/ TxtStart
    \/ TxtPage(FolderTexts)
    \/ TxtPageFail
    \/ TxtDone
    \/ DocxStart
    \/ DocxPage(FolderTexts)
    \/ DocxPageFail
    \/ DocxSave

SpecFolder == InitFolder /\ [][NextFolder]_vars

(***************************************************************************)
(* Properties.                                                             *)
(***************************************************************************)
\* The text blocks of a plain-text file: each text, then the blank lines.
RECURSIVE Blocks(_)
Blocks(texts) ==
    IF texts = <<>> THEN <<>>
    ELSE Head(texts) \o <<10, 10, 10>> \o Blocks(Tail(texts))

\* The valid-XML ranges {0x9,0xA,0xD}, [0x20,0xD7FF], [0xE000,0xFFFD],
\* [0x10000,0x10FFFF].
InXmlRanges(c) ==
    \/ c \in {9, 10, 13}
    \/ c \in 32..55295
    \/ c \in 57344..65533
    \/ c \in 65536..1114111

\* Code points at, and on both sides of, every end of those ranges.
BoundaryCodePoints ==
    {0, 7, 8, 9, 10, 11, 12, 13, 14, 31, 32, 33, 65, 55295, 55296, 57343, 57344,
     65533, 65534, 65535, 65536, 1114111}

\* s with the characters outside the valid-XML ranges removed.
RECURSIVE Stripped(_)
Stripped(s) ==
    IF s = <<>> THEN <<>>
    ELSE (IF InXmlRanges(Head(s)) THEN <<Head(s)>> ELSE <<>>) \o Stripped(Tail(s))

\* The code's test of a character agrees with the ranges at every range end,
\* and text made of 0x07 and "A" becomes "A".
XmlRangesAgree ==
    /\ \A c \in BoundaryCodePoints : valid_xml_char_ordinal(c) <=> InXmlRanges(c)
    /\ makeXMLCompatible(<<7, 65>>) = <<65>>

TxtRun == outputmode # "docx"

\* C1: when plain-text assembly of a non-empty image list returns, the output
\* file holds, for each image in input order, the OCR text of that image as
\* returned and then the blank-line delimiter, and nothing else: whatever the
\* file held before is gone.
C1_TxtOutput ==
    (pc = "done" /\ TxtRun /\ imageFilePaths # <<>>) =>
        /\ ocrCalls = imageFilePaths
        /\ Len(ocrTexts) = Len(imageFilePaths)
        /\ txtFile.exists
        /\ txtFile.content = Blocks(ocrTexts)

C1_Witness ==
    /\ pc = "done" /\ TxtRun
    /\ Len(imageFilePaths) = 2
    /\ txtFile0.exists
    /\ ocrTexts = << <<7, 65>>, <<10>> >>
    /\ txtFile.content = <<7, 65, 10, 10, 10, 10, 10, 10, 10>>

\* C2: when rich-text assembly returns, the saved document is, for each image
\* in input order, one paragraph and then one page break, the paragraph being
\* the OCR text of that image without the characters outside the valid-XML
\* ranges; the code's test of a character agrees with those ranges at every
\* end of every range, and text made of 0x07 and "A" becomes "A".
C2_DocxOutput ==
    /\ XmlRangesAgree
    /\ (pc = "done" /\ ~TxtRun) =>
          /\ ocrCalls = imageFilePaths
          /\ Len(ocrTexts) = Len(imageFilePaths)
          /\ docxFile.exists
          /\ Len(docxFile.content) = 2 * Len(imageFilePaths)
          /\ \A i \in 1..Len(imageFilePaths) :
                /\ docxFile.content[2 * i - 1] = Paragraph(Stripped(ocrTexts[i]))
                /\ docxFile.content[2 * i] = PageBreak

C2_Witness ==
    /\ pc = "done" /\ ~TxtRun
    /\ Len(imageFilePaths) = 2
    /\ ocrTexts = << <<7, 65>>, <<65, 10>> >>
    /\ docxFile.content =
          << Paragraph(<<65>>), PageBreak, Paragraph(<<65, 10>>), PageBreak >>

\* C3: when the OCR call of the k-th image raises, the run is over: the k-th
\* call is the last one, of the images exactly the first k+1 were given to
\* OCR, once each; in the plain-text path the file holds the blocks of the
\* pages 0..k-1; in the rich-text path the .docx file is as it was before the
\* run, as it is at every moment before the one save at the end.
C3_OcrFailure ==
    /\ (pc = "raised" /\ exc = "OCRError") =>
          LET k == Len(ocrTexts) IN
          /\ ~ENABLED Next
          /\ k < Len(imageFilePaths)
          /\ ocrCalls = SubSeq(imageFilePaths, 1, k + 1)
          /\ TxtRun => (txtFile.exists /\ txtFile.content = Blocks(ocrTexts))
          /\ ~TxtRun => docxFile = docxFile0
    /\ pc # "done" => docxFile = docxFile0

C3_Witness ==
    /\ pc = "raised" /\ exc = "OCRError" /\ ~TxtRun
    /\ Len(imageFilePaths) = 2
    /\ Len(ocrTexts) = 1
    /\ Len(output_docx) = 2
    /\ docxFile0.exists /\ docxFile = docxFile0

AfterMkdir == pc \in {"save", "txt", "txt_loop", "docx", "docx_loop", "done"}

\* C6 as stated: whatever the scratch path was before the run (absent, a
\* directory, not creatable), detect does not abort at the directory-creation
\* step, and afterwards the directory exists.
C6_AsStated ==
    /\ exc # "OSError"
    /\ (saveDir0 \in {"absent", "dir", "notCreatable"} /\ AfterMkdir) => saveDir = "dir"

\* C6 amended: the exception that is swallowed is the one of the probe
\* (os.stat), taken to mean that the directory is absent.  An absent
\* directory is created and an existing one is reused without error; when the
\* directory cannot be created, the error of os.mkdir leaves detect, before
\* any page is saved, any OCR call is made or any output file is touched.
C6_Amended ==
    /\ (saveDir0 \in {"absent", "dir"}) =>
          /\ exc # "OSError"
          /\ AfterMkdir => saveDir = "dir"
    /\ (saveDir0 = "dir") => saveDir = "dir"
    /\ (saveDir0 = "notCreatable") =>
          /\ ~AfterMkdir
          /\ saveDir = "notCreatable"
          /\ saveDirFiles = <<>> /\ ocrCalls = <<>>
          /\ txtFile = txtFile0 /\ docxFile = docxFile0
    /\ (exc = "OSError") =>
          /\ pc = "raised" /\ saveDir0 = "notCreatable" /\ convertCalls = 1

C6_Witness ==
    /\ pc = "raised" /\ exc = "OSError"
    /\ saveDir0 = "notCreatable"
    /\ convertCalls = 1

\* The path ends in the four characters ".pdf".
IsPdfPath(p) ==
    /\ Len(p) >= 4
    /\ p[Len(p) - 3] = "." /\ p[Len(p) - 2] = "p" /\ p[Len(p) - 1] = "d" /\ p[Len(p)] = "f"

\* C7: detect called with a path that does not end in ".pdf" ends with the
\* failed assertion and nothing else: no rendering call, the scratch directory
\* not created and not written, no OCR call, both output files as before.
C7_BadExtension ==
    ~IsPdfPath(targetFilePath) =>
        /\ pc \in {"main", "detect", "raised"}
        /\ pc = "raised" => exc = "AssertionError"
        /\ convertCalls = 0
        /\ saveDir = saveDir0 /\ saveDirFiles = <<>>
        /\ ocrCalls = <<>>
        /\ txtFile = txtFile0 /\ docxFile = docxFile0

C7_Witness ==
    /\ pc = "raised" /\ exc = "AssertionError"
    /\ targetFilePath = <<"a", ".", "p", "d", "f", "x">>
    /\ saveDir0 = "absent" /\ saveDir = "absent"
    /\ txtFile = AbsentFile /\ docxFile = AbsentFile

\* C8: the budget is an integer b with 0 <= b <= cpuCount, it is a nearest
\* integer of cpuCount * fraction (which lies in that interval already, so
\* the clamp changes nothing), 6 for (8, 0.7) and 0 or 1 for (1, 0.7).
C8_ThreadBudget ==
    (budgetPc = "done") =>
        /\ thread_count \in 0..cpu_count
        /\ 2 * thread_count * pctDen - 2 * cpu_count * pctNum \in (0 - pctDen)..pctDen
        /\ (cpu_count = 8 /\ pctNum = 7 /\ pctDen = 10) => thread_count = 6
        /\ (cpu_count = 1 /\ pctNum = 7 /\ pctDen = 10) => thread_count \in {0, 1}

C8_Witness ==
    /\ budgetPc = "done"
    /\ cpu_count = 8 /\ pctNum = 7 /\ pctDen = 10
    /\ thread_count = 6

\* a and b differ only in one run of digits, and the number of a's run is
\* the smaller one: a = x d y and b = x e y, d and e maximal runs of ASCII
\* digits, int(d) < int(e).
AllAsciiDigits(s) == s # <<>> /\ \A i \in 1..Len(s) : IsAsciiDigit(s[i])

SmallerInOneRun(a, b) ==
    \E p \in 0..Min(Len(a), Len(b)) :
      \E q \in 0..(Min(Len(a), Len(b)) - p) :
        LET da == SubSeq(a, p + 1, Len(a) - q)
            db == SubSeq(b, p + 1, Len(b) - q)
        IN  /\ SubSeq(a, 1, p) = SubSeq(b, 1, p)
            /\ SubSeq(a, Len(a) - q + 1, Len(a)) = SubSeq(b, Len(b) - q + 1, Len(b))
            /\ (p = 0 \/ ~IsAsciiDigit(a[p]))
            /\ (q = 0 \/ ~IsAsciiDigit(a[Len(a) - q + 1]))
            /\ AllAsciiDigits(da) /\ AllAsciiDigits(db)
            /\ IntValue(da) < IntValue(db)

Range(s) == {s[i] : i \in 1..Len(s)}

\* detectFiles has called the assembler.
Handed ==
    \/ pc \in {"txt", "txt_loop", "docx", "docx_loop", "done"}
    \/ (pc = "raised" /\ exc \in {"OCRError", "IndexError"})

PageFile(n) == join(<<"f">>, Jpg(n))

\* x stands before y in the order of the keys.
KeyBefore(x, y) == KeyLt(alphanum_key(x), alphanum_key(y)) = "True"

\* Basenames with one or two digit runs, at the start, in the middle and at
\* the end, with leading zeros, and after a non-ASCII digit.
PairNames ==
    { <<"0">>, <<"1">>, <<"0", "1">>, <<"0", "0", "7">>, <<"8">>, <<"1", "0">>,
      <<"p", "1">>, <<"p", "2">>, <<"p", "1", "0">>, <<"p", "1", "x">>,
      <<"p", "1", "0", "x">>, <<"1", "a", "2">>, <<"1", "a", "1", "0">>,
      <<"2", "a", "1">>, <<"U+0663", "1">>, <<"U+0663", "2">>, <<"U+0663", "1", "0">> }

\* Of two paths that differ only in one digit run, the key of the one with
\* the smaller number is the smaller key; and p2.jpg, p10.jpg, p1.jpg sort
\* to p1.jpg, p2.jpg, p10.jpg.
NumericRunsDecide ==
    /\ \A a, b \in PairNames :
          SmallerInOneRun(a, b) => KeyBefore(join(<<"f">>, Jpg(a)), join(<<"f">>, Jpg(b)))
    /\ sort_nicely(<< Jpg(<<"p", "2">>), Jpg(<<"p", "1", "0">>), Jpg(<<"p", "1">>) >>)
          = Sorted(<< Jpg(<<"p", "1">>), Jpg(<<"p", "2">>), Jpg(<<"p", "1", "0">>) >>)

\* C4: of two paths that differ only in one digit run the one with the
\* smaller number has the smaller key (so p1.jpg, p2.jpg, p10.jpg); the list
\* detectFiles hands to the assembler holds the regular files of the folder,
\* each once, and no path stands before one that differs from it only in one
\* digit run and has the smaller number; the images are given to OCR in that
\* order; 0.jpg, 1.jpg, 10.jpg, 2.jpg are handed over as 0, 1, 2, 10.
C4_NaturalOrder ==
    /\ NumericRunsDecide
    /\ Handed =>
          LET files == RegularFiles(targetFilePath, folder) IN
          /\ Len(imageFilePaths) = Len(files)
          /\ Range(imageFilePaths) = Range(files)
          /\ \A i, j \in 1..Len(imageFilePaths) :
                i < j => ~SmallerInOneRun(basename(imageFilePaths[j]),
                                          basename(imageFilePaths[i]))
          /\ ocrCalls = SubSeq(imageFilePaths, 1, Len(ocrCalls))
          /\ Range(files) = {PageFile(<<"0">>), PageFile(<<"1">>),
                             PageFile(<<"1", "0">>), PageFile(<<"2">>)}
                => imageFilePaths = << PageFile(<<"0">>), PageFile(<<"1">>),
                                       PageFile(<<"2">>), PageFile(<<"1", "0">>) >>

C4_Witness ==
    /\ pc = "done"
    /\ folder = << [name |-> Jpg(<<"0">>), isfile |-> TRUE],
                   [name |-> Jpg(<<"1">>), isfile |-> TRUE],
                   [name |-> Jpg(<<"1", "0">>), isfile |-> TRUE],
                   [name |-> Jpg(<<"2">>), isfile |-> TRUE] >>
    /\ ocrCalls = << PageFile(<<"0">>), PageFile(<<"1">>),
                     PageFile(<<"2">>), PageFile(<<"1", "0">>) >>

\* C5: the natural sort never fails with a comparison error, whatever the
\* paths are.
C5_SortNeverRaises == ~sortRaised

SameKey(x, y) == alphanum_key(x) = alphanum_key(y)

\* C9: a sort that returns leaves the paths of the input, in nondecreasing
\* order of their keys, paths of equal keys in their input order; and
\* sorting the result again gives the result.
C9_StableIdempotent ==
    (sortCalls >= 1 /\ ~sortRaised) =>
        /\ Len(l) = Len(l0)
        /\ \A i, j \in 1..Len(l) : i < j => ~KeyBefore(l[j], l[i])
        /\ \A x \in Range(l0) :
              SelectSeq(l, LAMBDA y : SameKey(x, y))
                = SelectSeq(l0, LAMBDA y : SameKey(x, y))
        /\ sort_nicely(l) = Sorted(l)

C9_Witness ==
    /\ sortCalls = 2 /\ ~sortRaised
    /\ l0 = << join(<<"a">>, <<"2">>), join(<<"b">>, <<"0", "1">>), join(<<"a">>, <<"1">>) >>
    /\ l = << join(<<"b">>, <<"0", "1">>), join(<<"a">>, <<"1">>), join(<<"a">>, <<"2">>) >>

\* C10: plain-text assembly creates or truncates the output file before the
\* first page is recognized, for the empty image list too: with no image it
\* returns without error and leaves an empty file, as rich-text assembly with
\* no image returns and saves a document without paragraphs.
C10_EmptyList ==
    LET started == pc \in {"txt_loop", "docx_loop", "done"}
                      \/ (pc = "raised" /\ exc \in {"OCRError", "IndexError"})
    IN  started =>
          /\ exc # "IndexError"
          /\ TxtRun => txtFile.exists
          /\ (TxtRun /\ ocrTexts = <<>>) => txtFile.content = <<>>
          /\ (imageFilePaths = <<>> /\ pc = "done" /\ ~TxtRun) => docxFile = FileOf(<<>>)

====
